---------------------------- MODULE Spec2Model ----------------------------
(***************************************************************************)
(* AOXC Supreme Notary: the scan / cursor / seal pipeline of               *)
(*   src/INFRASTRUCTURE/40_SENTINEL/infra40_SentinelGuard.py  ("guard")    *)
(*   src/sentinel-ops/sentinel.py                             ("ops")      *)
(* One process at a time runs run_notary_cycle / run_supreme_notary        *)
(* against one cursor file; the process may be killed between any two      *)
(* statements and a later process resumes from the files left on disk.     *)
(*                                                                         *)
(* Text is modelled as sequences of one-character strings, so that         *)
(* str(int) / int(str) and the f-string of the range are real conversions. *)
(* SHA-256 is modelled symbolically (a collision-free constructor).        *)
(***************************************************************************)
EXTENDS Integers, Sequences, FiniteSets

(***************************************************************************)
(* Bounds of the model (not program constants).                            *)
(***************************************************************************)
MaxRuns == 2
\* successive process invocations of one instance

SmallStep == 1
\* BLOCK_STEP of the scaled-down configuration

SmallGenesis == 8
\* GENESIS_BLOCK of the scaled-down configuration

MaxOffset == 3
\* the scaled-down chain has blocks up to SmallGenesis + MaxOffset

MaxClock == 1
\* time.time() returns a value in 0..MaxClock

(***************************************************************************)
(* Program constants.                                                      *)
(***************************************************************************)
GENESIS_BLOCK == 52084000

BLOCK_STEP == 70

BLOCK_STEP_OPS == 85

RPC_NODES == <<"https://xlayer.drpc.org", "https://rpc.xlayer.okx.com">>

TARGETS == <<"0xeb95..b2f4", "0x97Bd..B365", "0x20c0..CA84">>

\* an address no TARGETS entry names (a contract that is not watched)
OTHER_ADDRESS == "0x0000..dEaD"

\* w3.to_checksum_address: EIP-55 case normalisation of an address
to_checksum_address(t) == IF t = "0xeb95..b2f4" THEN "0xeB95..B2F4" ELSE t

checksum_targets == { to_checksum_address(TARGETS[i]) : i \in 1..Len(TARGETS) }

(***************************************************************************)
(* Text: str(int), int(str), f"{a}-{b}".                                   *)
(***************************************************************************)
Digits == <<"0", "1", "2", "3", "4", "5", "6", "7", "8", "9">>

RECURSIVE str(_)
str(n) == IF n < 0 THEN <<"-">> \o str(0 - n)
          ELSE IF n < 10 THEN <<Digits[n + 1]>>
          ELSE str(n \div 10) \o <<Digits[(n % 10) + 1]>>

DigitVal(c) == CHOOSE d \in 0..9 : Digits[d + 1] = c

IsDigit(c) == \E d \in 0..9 : Digits[d + 1] = c

\* int(s) raises ValueError unless s is a (signed) run of digits
IsIntText(s) ==
    /\ Len(s) > 0
    /\ IF s[1] = "-" THEN Len(s) > 1 /\ \A i \in 2..Len(s) : IsDigit(s[i])
       ELSE \A i \in 1..Len(s) : IsDigit(s[i])

RECURSIVE DigitsValue(_)
DigitsValue(s) == IF Len(s) = 0 THEN 0
                  ELSE 10 * DigitsValue(SubSeq(s, 1, Len(s) - 1)) + DigitVal(s[Len(s)])

int(s) == IF s[1] = "-" THEN 0 - DigitsValue(Tail(s)) ELSE DigitsValue(s)

range_text(start_block, end_block) == str(start_block) \o <<"-">> \o str(end_block)

Min(a, b) == IF a <= b THEN a ELSE b

(***************************************************************************)
(* Configurations.  "guard" and "ops" are the two scripts with their own   *)
(* constants; "e2e" is the end-to-end example of the specification         *)
(* (cursor 1000, head 1205, STEP 100); "small" is a scaled-down            *)
(* configuration explored exhaustively.  heads are the heights the chain   *)
(* head may take, blocks the heights that may hold logs.                   *)
(***************************************************************************)
Programs == {"guard", "ops"}

RealScenarios ==
    { [program |-> "guard", GENESIS_BLOCK |-> GENESIS_BLOCK, BLOCK_STEP |-> BLOCK_STEP,
       heads |-> {GENESIS_BLOCK + BLOCK_STEP, GENESIS_BLOCK + BLOCK_STEP + 1,
                  GENESIS_BLOCK + BLOCK_STEP + 2, GENESIS_BLOCK + BLOCK_STEP + 3},
       blocks |-> {GENESIS_BLOCK, GENESIS_BLOCK + BLOCK_STEP + 1}],
      [program |-> "ops", GENESIS_BLOCK |-> GENESIS_BLOCK, BLOCK_STEP |-> BLOCK_STEP_OPS,
       heads |-> {GENESIS_BLOCK + BLOCK_STEP_OPS, GENESIS_BLOCK + BLOCK_STEP_OPS + 1,
                  GENESIS_BLOCK + BLOCK_STEP_OPS + 2, GENESIS_BLOCK + BLOCK_STEP_OPS + 3},
       blocks |-> {GENESIS_BLOCK, GENESIS_BLOCK + BLOCK_STEP_OPS + 1}] }

E2EScenarios ==
    { [program |-> p, GENESIS_BLOCK |-> 1000, BLOCK_STEP |-> 100,
       heads |-> {1205}, blocks |-> {1000, 1042, 1099}] : p \in Programs }

SmallScenarios ==
    { [program |-> p, GENESIS_BLOCK |-> SmallGenesis, BLOCK_STEP |-> SmallStep,
       heads |-> (SmallGenesis - 1)..(SmallGenesis + MaxOffset),
       blocks |-> SmallGenesis..(SmallGenesis + MaxOffset)] : p \in Programs }

Scenarios == RealScenarios \cup E2EScenarios \cup SmallScenarios

(***************************************************************************)
(* The ledger.  A log is what eth_getLogs returns (an AttributeDict); its  *)
(* identity is structural.  Every block that holds logs holds one log of   *)
(* a contract that is not watched (logIndex 0) and one of a watched        *)
(* contract (logIndex 1).                                                  *)
(***************************************************************************)
WatchedLog(b) ==
    [address |-> to_checksum_address(TARGETS[(b % Len(TARGETS)) + 1]),
     data |-> "0x", blockNumber |-> b, logIndex |-> 1]

OtherLog(b) == [address |-> OTHER_ADDRESS, data |-> "0x", blockNumber |-> b, logIndex |-> 0]

ChainOf(bs) == { WatchedLog(b) : b \in bs } \cup { OtherLog(b) : b \in bs }

\* the scaled-down chains hold logs in every block from some height on (or in
\* none); the others hold logs in any of the scenario's blocks
Chains(s) ==
    IF s \in SmallScenarios
    THEN { ChainOf({ b \in s.blocks : b >= k }) : k \in s.blocks \cup {SmallGenesis + MaxOffset + 1} }
    ELSE { ChainOf(bs) : bs \in SUBSET s.blocks }

\* emission order of two logs of the chain
Before(a, b) ==
    \/ a.blockNumber < b.blockNumber
    \/ a.blockNumber = b.blockNumber /\ a.logIndex < b.logIndex

RECURSIVE InOrder(_)
InOrder(S) ==
    IF S = {} THEN <<>>
    ELSE LET first == CHOOSE a \in S : \A b \in S \ {a} : Before(a, b)
         IN  <<first>> \o InOrder(S \ {first})

\* w3.eth.get_logs({'fromBlock', 'toBlock', 'address'}) on a node that answers
get_logs(ledger, fromBlock, toBlock, address) ==
    InOrder({ l \in ledger : /\ fromBlock <= l.blockNumber
                             /\ l.blockNumber <= toBlock
                             /\ l.address \in address })

(***************************************************************************)
(* json.loads(Web3.to_json(log)): the AttributeDict becomes a dict, here a *)
(* sequence of <<key, value>> pairs in the order the node sent the fields. *)
(***************************************************************************)
to_json_loads(log) ==
    << <<"address", log.address>>, <<"data", log.data>>,
       <<"blockNumber", log.blockNumber>>, <<"logIndex", log.logIndex>> >>

\* the keys of a raw item in Python's string order
KeyOrder == <<"address", "blockNumber", "data", "logIndex">>

KeyRank(k) == CHOOSE i \in 1..Len(KeyOrder) : KeyOrder[i] = k

IntKeys == {"blockNumber", "logIndex"}

RECURSIVE sort_keys(_)
sort_keys(d) ==
    IF Len(d) = 0 THEN <<>>
    ELSE LET i == CHOOSE j \in 1..Len(d) :
                      \A k \in 1..Len(d) : KeyRank(d[j][1]) <= KeyRank(d[k][1])
             rest == [k \in 1..(Len(d) - 1) |-> IF k < i THEN d[k] ELSE d[k + 1]]
         IN  <<d[i]>> \o sort_keys(rest)

dumps_value(kv) == IF kv[1] \in IntKeys THEN str(kv[2]) ELSE <<"'", kv[2], "'">>

RECURSIVE dumps_pairs(_)
dumps_pairs(d) ==
    IF Len(d) = 0 THEN <<>>
    ELSE <<"'", d[1][1], "'", ":">> \o dumps_value(d[1])
         \o (IF Len(d) > 1 THEN <<",">> ELSE <<>>) \o dumps_pairs(Tail(d))

dumps_dict(d) == <<"{">> \o dumps_pairs(sort_keys(d)) \o <<"}">>

RECURSIVE dumps_items(_)
dumps_items(payload) ==
    IF Len(payload) = 0 THEN <<>>
    ELSE dumps_dict(payload[1])
         \o (IF Len(payload) > 1 THEN <<",">> ELSE <<>>) \o dumps_items(Tail(payload))

\* json.dumps(payload, sort_keys=True)
json_dumps(payload) == <<"[">> \o dumps_items(payload) \o <<"]">>

\* hashlib.sha256(text.encode()).hexdigest().upper(), symbolically
sha256_hex_upper(text) == [sha256 |-> text]

(***************************************************************************)
(* State.                                                                  *)
(***************************************************************************)
VARIABLES
    scn,            \* the configuration and the ledger's possible heights
    chain,          \* the logs of the ledger (those above head are yet to be mined)
    head,           \* the ledger's current height (eth_blockNumber)
    clock,          \* the last value time.time() / datetime.utcnow() returned
    cursorExists,   \* os.path.exists(CURSOR)
    cursorFile,     \* the text of the cursor file LAST_SCANNED_BLOCK
    snapshots,      \* the files of the snapshots directory: name, content, complete
    pc,             \* where the running process is; "exit" when there is none
    outcome,        \* how the process ended
    url_index,      \* the loop variable of the endpoint loop (index into RPC_NODES)
    w3,             \* the connected endpoint (index into RPC_NODES), 0 before
    cursor,         \* cursor / last_block
    current_head,   \* current_head / current_block
    pointer,
    limit,          \* limit / end
    vault,          \* vault / raw_vault
    f_path,         \* the certificate file this run wrote (ops: handed to ipfs)
    trace,          \* history of this run: what it attempted, requested and wrote
    runs,           \* how many processes were started so far
    prev,           \* history of the previous run
    interruptedAt,  \* cursor values that were on disk when an earlier run was interrupted
    hist            \* what the earlier runs fetched, committed and lost

env == <<scn, chain, head, clock>>

files == <<cursorExists, cursorFile, snapshots>>

locals == <<url_index, w3, cursor, current_head, pointer, limit, vault, f_path>>

past == <<runs, prev, interruptedAt, hist>>

vars == <<scn, chain, head, clock, cursorExists, cursorFile, snapshots, pc, outcome,
          url_index, w3, cursor, current_head, pointer, limit, vault, f_path, trace, runs,
          prev, interruptedAt, hist>>

NoFile == <<>>

EmptyTrace ==
    [loaded   |-> FALSE,  \* the cursor and the head were read
     attempts |-> <<>>,   \* endpoints tried, in order: url, connected
     requests |-> <<>>,   \* get_logs calls: fromBlock, toBlock, ok, logs returned,
                          \* and how many cursor writes the run had made by then
     writes   |-> <<>>,   \* values written to the cursor file, in order
     sealed   |-> <<>>,   \* certificate files written, in order
     publish  |-> <<>>]   \* ipfs invocations: path, result, cid

NoHistory ==
    [lost      |-> {},   \* logs an interrupted run fetched below the cursor it left
     committed |-> {},   \* ranges of the returned calls whose cursor write completed
     captured  |-> {}]   \* the largest head a run has read

NoRun ==
    [outcome |-> "none", loaded |-> FALSE, cursor |-> 0, current_head |-> 0,
     requests |-> <<>>, writes |-> <<>>, sealed |-> <<>>]

Running == pc # "exit"

Init ==
    /\ scn \in Scenarios
    /\ chain \in Chains(scn)
    /\ head \in scn.heads
    /\ clock = 0
    /\ cursorExists = FALSE
    /\ cursorFile = <<>>
    /\ snapshots = {}
    /\ pc = "init"
    /\ outcome = "running"
    /\ url_index = 1
    /\ w3 = 0
    /\ cursor = 0
    /\ current_head = 0
    /\ pointer = 0
    /\ limit = 0
    /\ vault = <<>>
    /\ f_path = NoFile
    /\ trace = EmptyTrace
    /\ runs = 1
    /\ prev = NoRun
    /\ interruptedAt = {}
    /\ hist = NoHistory

Exit(how) == pc' = "exit" /\ outcome' = how

(***************************************************************************)
(* The environment: blocks are mined.                                      *)
(***************************************************************************)
AdvanceHead ==
    /\ \E h \in scn.heads : h > head /\ head' = h
    /\ UNCHANGED <<scn, chain, clock, files, pc, outcome, locals, trace, past>>

(***************************************************************************)
(* initialize_industrial_structure / initialize_system                     *)
(***************************************************************************)
\* mutant: the cursor file is rewritten with the genesis value on every start
initialize_without_exists_check ==
    /\ pc = "init"
    /\ cursorExists' = TRUE
    /\ cursorFile' = str(scn.GENESIS_BLOCK)
    /\ trace' = [trace EXCEPT !.writes = Append(@, scn.GENESIS_BLOCK)]
    /\ pc' = "connect"
    /\ url_index' = 1
    /\ UNCHANGED <<env, snapshots, outcome, w3, cursor, current_head, pointer, limit,
                   vault, f_path, past>>

initialize_industrial_structure ==
    /\ pc = "init"
    /\ IF ~cursorExists
       THEN /\ cursorExists' = TRUE
            /\ cursorFile' = str(scn.GENESIS_BLOCK)
            /\ trace' = [trace EXCEPT !.writes = Append(@, scn.GENESIS_BLOCK)]
       ELSE UNCHANGED <<cursorExists, cursorFile, trace>>
    /\ pc' = "connect"
    /\ url_index' = 1
    /\ UNCHANGED <<env, snapshots, outcome, w3, cursor, current_head, pointer, limit,
                   vault, f_path, past>>

(***************************************************************************)
(* get_supreme_provider / setup_ghost_rpc: one pass of the endpoint loop.  *)
(* The endpoint answers the liveness probe, fails it, or the attempt       *)
(* raises; after the last endpoint sys.exit ends the process.              *)
(***************************************************************************)
ProbeResults == {"connected", "not_connected", "raised"}

\* mutant: sys.exit is missing, the caller goes on without a connection
get_supreme_provider_without_exit ==
    /\ pc = "connect"
    /\ \E result \in ProbeResults :
        /\ trace' = [trace EXCEPT !.attempts =
                         Append(@, [url |-> RPC_NODES[url_index],
                                    connected |-> (result = "connected")])]
        /\ IF result = "connected"
           THEN /\ w3' = url_index
                /\ pc' = "load"
                /\ UNCHANGED <<url_index, outcome>>
           ELSE IF url_index < Len(RPC_NODES)
           THEN /\ url_index' = url_index + 1
                /\ UNCHANGED <<w3, pc, outcome>>
           ELSE /\ pc' = "load"
                /\ UNCHANGED <<w3, url_index, outcome>>
    /\ UNCHANGED <<env, files, cursor, current_head, pointer, limit, vault, f_path, past>>

get_supreme_provider ==
    /\ pc = "connect"
    /\ \E result \in ProbeResults :
        /\ trace' = [trace EXCEPT !.attempts =
                         Append(@, [url |-> RPC_NODES[url_index],
                                    connected |-> (result = "connected")])]
        /\ IF result = "connected"
           THEN /\ w3' = url_index
                /\ pc' = "load"
                /\ UNCHANGED <<url_index, outcome>>
           ELSE IF url_index < Len(RPC_NODES)
           THEN /\ url_index' = url_index + 1
                /\ UNCHANGED <<w3, pc, outcome>>
           ELSE /\ Exit("fatal")
                /\ UNCHANGED <<w3, url_index>>
    /\ UNCHANGED <<env, files, cursor, current_head, pointer, limit, vault, f_path, past>>

(***************************************************************************)
(* run_notary_cycle / run_supreme_notary                                   *)
(***************************************************************************)
\* mutant: the stored value is ignored and the scan restarts from genesis
load_cursor_from_genesis(text) == scn.GENESIS_BLOCK

\* mutant: the stored value is taken for the last scanned block, not the next one
load_cursor_after(text) == int(text) + 1

\* int(f.read().strip())
load_cursor(text) == int(text)

\* cursor = int(f.read().strip()); current_head = w3.eth.block_number; pointer = cursor
read_cursor ==
    /\ pc = "load"
    /\ IsIntText(cursorFile)
    /\ cursor' = load_cursor(cursorFile)
    /\ current_head' = head
    /\ vault' = <<>>
    /\ pointer' = load_cursor(cursorFile)
    /\ trace' = [trace EXCEPT !.loaded = TRUE]
    /\ pc' = "scan"
    /\ UNCHANGED <<env, files, outcome, url_index, w3, limit, f_path, past>>

\* int() raises ValueError on an empty cursor file, or eth_blockNumber raises:
\* both are outside the try block, so the process dies with a traceback
read_cursor_raises ==
    /\ pc = "load"
    /\ Exit("crashed")
    /\ UNCHANGED <<env, files, locals, trace, past>>

\* mutant: the loop gives up one block early, the batch is sealed with a range left
loop_condition_one_short(p, h) == p + 1 < h

\* mutant: the loop also runs when the pointer has reached the head
loop_condition_inclusive(p, h) == p <= h

\* while pointer < current_head
loop_condition(p, h) == p < h

\* mutant: the range is capped at the chain's head of the moment, not the captured one
next_limit_chasing(p, step, h) == Min(p + step, head)

\* limit = min(pointer + BLOCK_STEP, current_head)
next_limit(p, step, h) == Min(p + step, h)

\* mutant: the logs of a range are put in front of the vault instead of behind it
scan_range_prepends ==
    /\ pc = "scan"
    /\ loop_condition(pointer, current_head)
    /\ LET l == next_limit(pointer, scn.BLOCK_STEP, current_head)
           logs == get_logs(chain, pointer, l, checksum_targets)
       IN  /\ limit' = l
           /\ vault' = [i \in 1..Len(logs) |-> to_json_loads(logs[i])] \o vault
           /\ trace' = [trace EXCEPT !.requests =
                            Append(@, [fromBlock |-> pointer, toBlock |-> l,
                                       ok |-> TRUE, logs |-> logs,
                                       written |-> Len(trace.writes)])]
    /\ pc' = "save"
    /\ UNCHANGED <<env, files, outcome, url_index, w3, cursor, current_head, pointer,
                   f_path, past>>

\* one get_logs call of the while loop that returns; its logs go to the vault
scan_range ==
    /\ pc = "scan"
    /\ loop_condition(pointer, current_head)
    /\ LET l == next_limit(pointer, scn.BLOCK_STEP, current_head)
           logs == get_logs(chain, pointer, l, checksum_targets)
       IN  /\ limit' = l
           /\ vault' = vault \o [i \in 1..Len(logs) |-> to_json_loads(logs[i])]
           /\ trace' = [trace EXCEPT !.requests =
                            Append(@, [fromBlock |-> pointer, toBlock |-> l,
                                       ok |-> TRUE, logs |-> logs,
                                       written |-> Len(trace.writes)])]
    /\ pc' = "save"
    /\ UNCHANGED <<env, files, outcome, url_index, w3, cursor, current_head, pointer,
                   f_path, past>>

\* mutant: the exception is caught inside the loop and the range is skipped
scan_range_raises_and_continues ==
    /\ pc = "scan"
    /\ loop_condition(pointer, current_head)
    /\ LET l == next_limit(pointer, scn.BLOCK_STEP, current_head)
       IN  /\ limit' = l
           /\ trace' = [trace EXCEPT !.requests =
                            Append(@, [fromBlock |-> pointer, toBlock |-> l,
                                       ok |-> FALSE, logs |-> <<>>,
                                       written |-> Len(trace.writes)])]
    /\ pc' = "save"
    /\ UNCHANGED <<env, files, outcome, url_index, w3, cursor, current_head, pointer,
                   vault, f_path, past>>

\* the get_logs call raises (timeout, malformed response): except Exception prints
scan_range_raises ==
    /\ pc = "scan"
    /\ loop_condition(pointer, current_head)
    /\ LET l == next_limit(pointer, scn.BLOCK_STEP, current_head)
       IN  /\ limit' = l
           /\ trace' = [trace EXCEPT !.requests =
                            Append(@, [fromBlock |-> pointer, toBlock |-> l,
                                       ok |-> FALSE, logs |-> <<>>,
                                       written |-> Len(trace.writes)])]
    /\ Exit("error")
    /\ UNCHANGED <<env, files, url_index, w3, cursor, current_head, pointer, vault,
                   f_path, past>>

\* mutant: the boundary block is taken again as the next fromBlock
next_pointer_same(l) == l

\* mutant: the pointer jumps over the block that follows the range
next_pointer_skip(l) == l + 2

\* pointer = limit + 1
next_pointer(l) == l + 1

\* mutant: the pointer moves on in memory, the cursor file is left for later
save_cursor_in_memory ==
    /\ pc = "save"
    /\ pointer' = next_pointer(limit)
    /\ pc' = "scan"
    /\ UNCHANGED <<env, files, outcome, url_index, w3, cursor, current_head, limit,
                   vault, f_path, trace, past>>

\* mutant: the value written to the cursor file is one block ahead of the pointer
save_cursor_ahead ==
    /\ pc = "save"
    /\ pointer' = next_pointer(limit)
    /\ cursorFile' = str(next_pointer(limit) + 1)
    /\ trace' = [trace EXCEPT !.writes = Append(@, next_pointer(limit) + 1)]
    /\ pc' = "scan"
    /\ UNCHANGED <<env, cursorExists, snapshots, outcome, url_index, w3, cursor,
                   current_head, limit, vault, f_path, past>>

\* pointer = limit + 1; the cursor file is rewritten
save_cursor ==
    /\ pc = "save"
    /\ pointer' = next_pointer(limit)
    /\ cursorFile' = str(next_pointer(limit))
    /\ trace' = [trace EXCEPT !.writes = Append(@, next_pointer(limit))]
    /\ pc' = "scan"
    /\ UNCHANGED <<env, cursorExists, snapshots, outcome, url_index, w3, cursor,
                   current_head, limit, vault, f_path, past>>

\* mutant: the empty vault is not noticed, the loop's end always goes on to seal
not_vault_never(v) == FALSE

\* not vault
not_vault(v) == v = <<>>

\* if not vault: return
no_new_data ==
    /\ pc = "scan"
    /\ ~loop_condition(pointer, current_head)
    /\ not_vault(vault)
    /\ Exit("nodata")
    /\ UNCHANGED <<env, files, locals, trace, past>>

(***************************************************************************)
(* Sealing.  The fingerprint is the digest of the key-sorted serialisation *)
(* of the vault; the attestation carries the creation time and the range.  *)
(***************************************************************************)
\* mutant: the digest is taken over the manifest together with the creation time
seal_artifact_stamped(payload, start_block, end_block, utcnow) ==
    LET manifest_str == json_dumps(payload) \o str(utcnow)
        atomic_hash == sha256_hex_upper(manifest_str)
    IN  << [attestation |-> [fingerprint |-> atomic_hash,
                             notary_seal |-> "AOXC-V2-AKDENIZ-SUPREME-NOTARY",
                             timestamp   |-> utcnow,
                             range       |-> range_text(start_block, end_block)],
            payload     |-> payload],
           atomic_hash >>

\* guard: seal_artifact(payload, start_block, end_block) -> (certificate, atomic_hash)
seal_artifact(payload, start_block, end_block, utcnow) ==
    LET manifest_str == json_dumps(payload)
        atomic_hash == sha256_hex_upper(manifest_str)
    IN  << [attestation |-> [fingerprint |-> atomic_hash,
                             notary_seal |-> "AOXC-V2-AKDENIZ-SUPREME-NOTARY",
                             timestamp   |-> utcnow,
                             range       |-> range_text(start_block, end_block)],
            payload     |-> payload],
           atomic_hash >>

\* ops: the inline sealing of run_supreme_notary -> (final_bundle, atomic_hash)
seal_bundle(raw_vault, last_block, current_block, time) ==
    LET raw_manifest == json_dumps(raw_vault)
        atomic_hash == sha256_hex_upper(raw_manifest)
    IN  << [attestation |-> [fingerprint_sha256 |-> atomic_hash,
                             notary_seal |-> "AOXC-V2-AKDENIZ-SUPREME-NOTARY",
                             range       |-> range_text(last_block, current_block),
                             unix_ts     |-> time],
            raw_payload |-> raw_vault],
           atomic_hash >>

\* guard: f"AOXC_CERT_{int(time.time())}_{final_hash[:8]}.json"
\* ops:   f"Supreme_Sealed_{int(time.time())}.json"
file_name(program, time, final_hash) ==
    IF program = "guard"
    THEN <<"AOXC_CERT_", str(time), "_", [first8 |-> final_hash], ".json">>
    ELSE <<"Supreme_Sealed_", str(time), ".json">>

\* the sealing of either script
seal(program, payload, start_block, end_block, time) ==
    IF program = "guard" THEN seal_artifact(payload, start_block, end_block, time)
    ELSE seal_bundle(payload, start_block, end_block, time)

sealed_at(time) == seal(scn.program, vault, cursor, current_head, time)

\* time never runs backwards: a reading is at least the last one
Now == clock..MaxClock

\* open(path, 'w') replaces a file of the same name
write_file(dir, name, content, complete) ==
    { f \in dir : f.name # name }
        \cup { [name |-> name, content |-> content, complete |-> complete] }

\* the vault is sealed and the certificate written to the snapshots directory
seal_and_save ==
    /\ pc = "scan"
    /\ ~loop_condition(pointer, current_head)
    /\ ~not_vault(vault)
    /\ \E time \in Now :
        LET sealed == sealed_at(time)
            name == file_name(scn.program, time, sealed[2])
        IN  /\ clock' = time
            /\ snapshots' = write_file(snapshots, name, sealed[1], TRUE)
            /\ f_path' = name
            /\ trace' = [trace EXCEPT !.sealed = Append(@, name)]
    /\ IF scn.program = "ops"
       THEN pc' = "publish" /\ UNCHANGED outcome
       ELSE Exit("sealed")
    /\ UNCHANGED <<scn, chain, head, cursorExists, cursorFile, url_index, w3, cursor,
                   current_head, pointer, limit, vault, past>>

\* ops: subprocess.run(['ipfs', 'add', '-Q', f_path]); exit code 0 prints the CID,
\* another exit code prints the error, a missing binary raises into except Exception
PublishResults == {"cid", "nonzero", "raised"}

\* mutant: a failed publication removes the certificate it could not publish
publish_or_remove ==
    /\ pc = "publish"
    /\ \E result \in PublishResults :
        /\ trace' = [trace EXCEPT !.publish =
                         Append(@, [path |-> f_path, result |-> result,
                                    cid |-> IF result = "cid" THEN <<"cid", f_path>>
                                            ELSE <<>>])]
        /\ snapshots' = IF result = "cid" THEN snapshots
                        ELSE { f \in snapshots : f.name # f_path }
        /\ Exit(CASE result = "cid" -> "published"
                  [] result = "nonzero" -> "publish_failed"
                  [] OTHER -> "error")
    /\ UNCHANGED <<env, cursorExists, cursorFile, locals, past>>

publish ==
    /\ pc = "publish"
    /\ \E result \in PublishResults :
        /\ trace' = [trace EXCEPT !.publish =
                         Append(@, [path |-> f_path, result |-> result,
                                    cid |-> IF result = "cid" THEN <<"cid", f_path>>
                                            ELSE <<>>])]
        /\ Exit(CASE result = "cid" -> "published"
                  [] result = "nonzero" -> "publish_failed"
                  [] OTHER -> "error")
    /\ UNCHANGED <<env, files, locals, past>>

(***************************************************************************)
(* The process is killed from outside.  Between two statements nothing     *)
(* else changes; inside open(path, "w") ... write, the file is left        *)
(* truncated.                                                              *)
(***************************************************************************)
kill ==
    /\ Running
    /\ Exit("killed")
    /\ UNCHANGED <<env, files, locals, trace, past>>

kill_in_cursor_write ==
    /\ \/ pc = "save"
       \/ pc = "init" /\ ~cursorExists
    /\ cursorExists' = TRUE
    /\ cursorFile' = <<>>
    /\ Exit("killed")
    /\ UNCHANGED <<env, snapshots, locals, trace, past>>

kill_in_certificate_write ==
    /\ pc = "scan"
    /\ ~loop_condition(pointer, current_head)
    /\ ~not_vault(vault)
    /\ \E time \in Now :
        LET sealed == sealed_at(time)
        IN  /\ clock' = time
            /\ snapshots' = write_file(snapshots, file_name(scn.program, time, sealed[2]),
                                       sealed[1], FALSE)
    /\ Exit("killed")
    /\ UNCHANGED <<scn, chain, head, cursorExists, cursorFile, locals, trace, past>>

(***************************************************************************)
(* The next invocation of the script: a fresh process, the files kept.     *)
(***************************************************************************)
RunRecord ==
    [outcome |-> outcome, loaded |-> trace.loaded, cursor |-> cursor,
     current_head |-> current_head, requests |-> trace.requests,
     writes |-> trace.writes, sealed |-> trace.sealed]

\* the run ended before it sealed, by a kill, an uncaught or a caught exception
Interrupted(how) == how \in {"killed", "crashed", "error"}

\* the ranges of the calls of reqs that returned, as <<fromBlock, toBlock>>
RangesOf(reqs) ==
    { <<reqs[i].fromBlock, reqs[i].toBlock>> : i \in { j \in 1..Len(reqs) : reqs[j].ok } }

\* the calls of this run that were followed by their cursor write: pointer = limit + 1
CommittedRequests == SelectSeq(trace.requests, LAMBDA r : r.ok /\ r.toBlock < pointer)

\* the logs this run fetched from ranges its cursor has already passed
FetchedBelowCursor ==
    UNION { { CommittedRequests[i].logs[k] : k \in 1..Len(CommittedRequests[i].logs) } :
            i \in 1..Len(CommittedRequests) }

LargestOf(S) == CHOOSE x \in S : \A y \in S : y <= x

\* the logs lost so far, those of this run included once it was interrupted
Lost ==
    hist.lost \cup (IF Interrupted(outcome) /\ trace.sealed = <<>>
                    THEN FetchedBelowCursor ELSE {})

\* the ranges committed so far, in any run
Committed == hist.committed \cup RangesOf(CommittedRequests)

\* the largest head read so far, in any run
Captured ==
    IF trace.loaded THEN {LargestOf(hist.captured \cup {current_head})}
    ELSE hist.captured

\* the history with this run added to it
Archive == [lost |-> Lost, committed |-> Committed, captured |-> Captured]

start_run ==
    /\ pc = "exit"
    /\ runs < MaxRuns
    /\ runs' = runs + 1
    /\ prev' = RunRecord
    /\ interruptedAt' =
           IF Interrupted(outcome) /\ trace.sealed = <<>>
           THEN interruptedAt
                  \cup { trace.writes[i] : i \in 1..Len(trace.writes) }
                  \cup (IF IsIntText(cursorFile) THEN {int(cursorFile)} ELSE {})
           ELSE interruptedAt
    /\ hist' = Archive
    /\ pc' = "init"
    /\ outcome' = "running"
    /\ url_index' = 1
    /\ w3' = 0
    /\ cursor' = 0
    /\ current_head' = 0
    /\ pointer' = 0
    /\ limit' = 0
    /\ vault' = <<>>
    /\ f_path' = NoFile
    /\ trace' = EmptyTrace
    /\ UNCHANGED <<env, files>>

Next ==
    \/ AdvanceHead
    \/ initialize_industrial_structure
    \/ get_supreme_provider
    \/ read_cursor
    \/ read_cursor_raises
    \/ scan_range
    \/ scan_range_raises
    \/ save_cursor
    \/ no_new_data
    \/ seal_and_save
    \/ publish
    \/ kill
    \/ kill_in_cursor_write
    \/ kill_in_certificate_write
    \/ start_run

Spec == Init /\ [][Next]_vars

(***************************************************************************)
(* The while loop as a function: the ranges one uninterrupted scan from p  *)
(* to h requests, in order.                                                *)
(***************************************************************************)
RECURSIVE scan_ranges(_, _, _)
scan_ranges(p, step, h) ==
    IF loop_condition(p, h)
    THEN LET l == next_limit(p, step, h)
         IN  <<[fromBlock |-> p, toBlock |-> l]>> \o scan_ranges(next_pointer(l), step, h)
    ELSE <<>>

(***************************************************************************)
(* Vocabulary of the properties.                                           *)
(***************************************************************************)
Requests == trace.requests

\* the while loop of this run ended by its condition, every request answered
ScanFinished ==
    /\ trace.loaded
    /\ pc # "save"
    /\ ~loop_condition(pointer, current_head)
    /\ \A i \in 1..Len(Requests) : Requests[i].ok

\* the requests of this run whose range holds block b
Covering(b) == { i \in 1..Len(Requests) : Requests[i].fromBlock <= b /\ b <= Requests[i].toBlock }

\* the value the cursor file holds
Persisted == int(cursorFile)

\* C1: the ranges requested by one uninterrupted scan from C0 to H > C0 tile
\* [C0, H] (every block in exactly one range) and none is wider than STEP
\* (toBlock - fromBlock <= STEP).
C1_RangeCoverage ==
    (ScanFinished /\ cursor < current_head) =>
        /\ \A b \in cursor..current_head : Cardinality(Covering(b)) = 1
        /\ \A i \in 1..Len(Requests) :
               Requests[i].toBlock - Requests[i].fromBlock <= scn.BLOCK_STEP

\* C2: once a run was interrupted before sealing with cursor value C on disk,
\* no get_logs request of a later run has fromBlock < C.
C2_NoRerequestBelowCursor ==
    \A i \in 1..Len(Requests) : \A C \in interruptedAt : Requests[i].fromBlock >= C

\* a second run, after a run that advanced the cursor and was killed, has requested a range
C2_Witness ==
    /\ runs = 2
    /\ prev.outcome = "killed"
    /\ Len(prev.writes) >= 2
    /\ prev.sealed = <<>>
    /\ Len(Requests) >= 1
    /\ prev.writes[Len(prev.writes)] \in interruptedAt

\* the values known to have been stored in the cursor file so far
Stored ==
    (IF cursorExists /\ IsIntText(cursorFile) THEN {Persisted} ELSE {})
        \cup { trace.writes[i] : i \in 1..Len(trace.writes) }
        \cup { prev.writes[i] : i \in 1..Len(prev.writes) }
        \cup interruptedAt

\* C3: the cursor file, once created, is never removed, and no step stores a
\* value smaller than one stored before (whatever way the runs ended).
C3_CursorMonotone ==
    [][/\ cursorExists => cursorExists'
       /\ (cursorFile' # cursorFile /\ IsIntText(cursorFile'))
              => \A v \in Stored : int(cursorFile') >= v]_vars

\* a second run, after a run that aborted on an RPC error, has advanced the cursor
C3_Witness ==
    /\ runs = 2
    /\ prev.outcome = "error"
    /\ Len(prev.writes) >= 2
    /\ Len(trace.writes) >= 1
    /\ Persisted = trace.writes[Len(trace.writes)]

\* C4: when the scan loop has ended and every get_logs request of the run
\* returned no logs, the run writes no certificate and invokes no publisher,
\* and the cursor file holds the block after the last scanned range.
C4_EmptyBatchSkip ==
    (ScanFinished /\ \A i \in 1..Len(Requests) : Requests[i].logs = <<>>) =>
        /\ trace.sealed = <<>>
        /\ trace.publish = <<>>
        /\ f_path = NoFile
        /\ pc \in {"scan", "exit"}
        /\ outcome \in {"running", "nodata", "killed"}
        /\ Persisted = IF Requests = <<>> THEN cursor
                       ELSE Requests[Len(Requests)].toBlock + 1

\* a run that scanned two ranges, both without logs, ended by the no-data exit
C4_Witness ==
    /\ outcome = "nodata"
    /\ Len(Requests) >= 2
    /\ \A i \in 1..Len(Requests) : Requests[i].logs = <<>>
    /\ Persisted > cursor

Attempts == trace.attempts

AllFailed == Len(Attempts) = Len(RPC_NODES) /\ \A i \in 1..Len(Attempts) : ~Attempts[i].connected

\* C6: the endpoints are tried once each in list order; when all N attempts
\* have failed the process has ended fatally, having read no cursor, requested
\* no logs and written no certificate, and it changes no file afterwards.
C6_FatalFallback ==
    /\ [](/\ Len(Attempts) <= Len(RPC_NODES)
          /\ \A i \in 1..Len(Attempts) : Attempts[i].url = RPC_NODES[i]
          /\ \A i \in 1..Len(Attempts) : Attempts[i].connected => i = Len(Attempts)
          /\ AllFailed <=> outcome = "fatal"
          /\ outcome = "fatal" =>
                 /\ pc = "exit"
                 /\ ~trace.loaded
                 /\ Requests = <<>>
                 /\ trace.sealed = <<>>
                 /\ trace.publish = <<>>)
    /\ [][outcome = "fatal" =>
              /\ cursorFile' = cursorFile
              /\ snapshots' = snapshots
              /\ runs' = runs => (trace' = trace /\ pc' = "exit")]_vars

\* both endpoints were tried and failed, and the process has exited
C6_Witness ==
    /\ outcome = "fatal"
    /\ Len(Attempts) = 2
    /\ Attempts[1].url = RPC_NODES[1]
    /\ Attempts[2].url = RPC_NODES[2]
    /\ runs = 2

\* the logs the answered requests returned, as a set
EventsOf(reqs) == UNION { { reqs[i].logs[j] : j \in 1..Len(reqs[i].logs) } : i \in 1..Len(reqs) }

\* the logs one uninterrupted run from C0 to H obtains
UninterruptedEvents(C0, H) ==
    LET ranges == scan_ranges(C0, scn.BLOCK_STEP, H)
    IN  UNION { LET logs == get_logs(chain, ranges[i].fromBlock, ranges[i].toBlock,
                                     checksum_targets)
                IN  { logs[j] : j \in 1..Len(logs) } : i \in 1..Len(ranges) }

\* the previous run read its cursor and was interrupted before it sealed
PrevInterrupted == prev.loaded /\ Interrupted(prev.outcome) /\ prev.sealed = <<>>

\* C7: a finished uninterrupted scan requests exactly the ranges of the loop;
\* and when the previous run over [C0, H] was interrupted and this run has
\* finished its scan with the same head H, the logs the two runs obtained are
\* together the logs one uninterrupted run from C0 to H obtains.
C7_ResumeEquivalence ==
    /\ ScanFinished =>
           [i \in 1..Len(Requests) |->
               [fromBlock |-> Requests[i].fromBlock, toBlock |-> Requests[i].toBlock]]
             = scan_ranges(cursor, scn.BLOCK_STEP, current_head)
    /\ (PrevInterrupted /\ ScanFinished /\ current_head = prev.current_head) =>
           EventsOf(prev.requests) \cup EventsOf(Requests)
             = UninterruptedEvents(prev.cursor, prev.current_head)

\* the previous run advanced the cursor and was killed with logs in hand; this run
\* resumed with the same head, obtained more logs and finished its scan
C7_Witness ==
    /\ PrevInterrupted
    /\ ScanFinished
    /\ current_head = prev.current_head
    /\ prev.outcome = "killed"
    /\ Len(prev.writes) >= 2
    /\ EventsOf(prev.requests) # {}
    /\ EventsOf(Requests) # {}
    /\ cursor > prev.cursor

\* the run ended by itself: not killed, no uncaught exception, every request answered
RunEnded ==
    /\ pc = "exit"
    /\ trace.loaded
    /\ outcome \notin {"killed", "crashed", "fatal"}
    /\ \A i \in 1..Len(Requests) : Requests[i].ok

FingerprintOf(c) ==
    IF "fingerprint" \in DOMAIN c.attestation THEN c.attestation.fingerprint
    ELSE c.attestation.fingerprint_sha256

PayloadOf(c) == IF "payload" \in DOMAIN c THEN c.payload ELSE c.raw_payload

\* the three watched logs of the end-to-end example, as the vault holds them
E2EBatch ==
    <<to_json_loads(WatchedLog(1000)), to_json_loads(WatchedLog(1042)),
      to_json_loads(WatchedLog(1099))>>

\* the canonical (key-sorted) serialisation of one watched log, written out
CanonicalLog(b) ==
    <<"{", "'", "address", "'", ":", "'", WatchedLog(b).address, "'", ",",
      "'", "blockNumber", "'", ":">> \o str(b)
      \o <<",", "'", "data", "'", ":", "'", "0x", "'", ",",
           "'", "logIndex", "'", ":", "1", "}">>

E2ECanonical ==
    <<"[">> \o CanonicalLog(1000) \o <<",">> \o CanonicalLog(1042) \o <<",">>
        \o CanonicalLog(1099) \o <<"]">>

\* C8: end to end, from cursor 1000 with head 1205, STEP 100 and three watched
\* logs in [1000, 1099] and none above, a run that ends by itself leaves the
\* cursor file at "1206", a batch of exactly those three logs and exactly one
\* certificate, of range "1000-1205", whose fingerprint is the digest of the
\* canonical serialisation of those three logs.
C8_EndToEnd ==
    (/\ scn \in E2EScenarios
     /\ chain = ChainOf({1000, 1042, 1099})
     /\ runs = 1
     /\ RunEnded
     /\ cursor = 1000
     /\ current_head = 1205) =>
        /\ cursorFile = <<"1", "2", "0", "6">>
        /\ Len(vault) = 3
        /\ vault = E2EBatch
        /\ Len(trace.sealed) = 1
        /\ Cardinality(snapshots) = 1
        /\ \A f \in snapshots :
               /\ f.name = trace.sealed[1]
               /\ f.complete
               /\ f.content.attestation.range = <<"1", "0", "0", "0", "-", "1", "2", "0", "5">>
               /\ PayloadOf(f.content) = E2EBatch
               /\ FingerprintOf(f.content) = sha256_hex_upper(E2ECanonical)

\* the end-to-end run has ended, its three ranges requested
C8_Witness ==
    /\ scn \in E2EScenarios
    /\ chain = ChainOf({1000, 1042, 1099})
    /\ runs = 1
    /\ RunEnded
    /\ cursor = 1000
    /\ current_head = 1205
    /\ Len(Requests) = 3
    /\ snapshots # {}

\* C9: a get_logs request that fails is the last request of its run; the run
\* has ended by the error exit with no certificate written and no publisher
\* invoked, and the cursor file holds the fromBlock of the failed request.
C9_AbortOnRpcFailure ==
    \A i \in 1..Len(Requests) :
        ~Requests[i].ok =>
            /\ i = Len(Requests)
            /\ pc = "exit"
            /\ outcome = "error"
            /\ trace.sealed = <<>>
            /\ trace.publish = <<>>
            /\ f_path = NoFile
            /\ cursorExists
            /\ IsIntText(cursorFile)
            /\ Persisted = Requests[i].fromBlock

\* the second request of a run failed, with logs of the first range in the vault
C9_Witness ==
    /\ outcome = "error"
    /\ Len(Requests) = 2
    /\ ~Requests[2].ok
    /\ vault # <<>>
    /\ Persisted = Requests[2].fromBlock

\* C10 (ops): the publisher is invoked only on a certificate file that is
\* completely written; the publish step changes neither that file nor the
\* cursor file; and after a non-zero exit the run has ended by itself, with no
\* content identifier.
C10_PublishBestEffort ==
    /\ []((pc = "publish" \/ trace.publish # <<>>) =>
              /\ trace.sealed = <<f_path>>
              /\ \E f \in snapshots : f.name = f_path /\ f.complete
              /\ \A i \in 1..Len(trace.publish) :
                     /\ trace.publish[i].path = f_path
                     /\ trace.publish[i].result = "nonzero" =>
                            /\ trace.publish[i].cid = <<>>
                            /\ pc = "exit"
                            /\ outcome = "publish_failed")
    /\ [][pc = "publish" =>
              /\ snapshots' = snapshots
              /\ cursorFile' = cursorFile
              /\ cursorExists' = cursorExists]_vars

\* the publisher exited non-zero; the certificate is on disk
C10_Witness ==
    /\ outcome = "publish_failed"
    /\ Len(trace.publish) = 1
    /\ trace.publish[1].result = "nonzero"
    /\ \E f \in snapshots : f.name = f_path /\ f.complete

(***************************************************************************)
(* Sealing as a function of its inputs.  A batch is fixed at the start     *)
(* (the watched logs of a chain, as the vault holds them); it is sealed    *)
(* twice, each time at some time, for some range, with the fields of its   *)
(* items in the order received or in the opposite order; both              *)
(* certificates are kept.                                                  *)
(***************************************************************************)
SealInit ==
    /\ scn \in Scenarios
    /\ chain \in Chains(scn)
    /\ head \in scn.heads
    /\ clock = 0
    /\ cursorExists = FALSE
    /\ cursorFile = <<>>
    /\ snapshots = {}
    /\ pc = "seal"
    /\ outcome = "running"
    /\ url_index = 1
    /\ w3 = 0
    /\ cursor = scn.GENESIS_BLOCK
    /\ current_head = head
    /\ pointer = 0
    /\ limit = 0
    /\ vault = LET logs == get_logs(chain, scn.GENESIS_BLOCK, head, checksum_targets)
               IN  [i \in 1..Len(logs) |-> to_json_loads(logs[i])]
    /\ f_path = NoFile
    /\ trace = EmptyTrace
    /\ runs = 1
    /\ prev = NoRun
    /\ interruptedAt = {}
    /\ hist = NoHistory

Reverse(d) == [i \in 1..Len(d) |-> d[Len(d) + 1 - i]]

\* the same items, their fields in the opposite order when asked
Reordered(payload, opposite) ==
    IF opposite THEN [i \in 1..Len(payload) |-> Reverse(payload[i])] ELSE payload

\* the batch is sealed; the certificate is kept beside the other one
seal_again ==
    /\ pc = "seal"
    /\ Cardinality(snapshots) < 2
    /\ \E time \in 0..MaxClock, end_block \in scn.heads, opposite \in BOOLEAN :
        LET sealed == seal(scn.program, Reordered(vault, opposite), cursor, end_block, time)
        IN  /\ clock' = time
            /\ snapshots' = snapshots \cup
                   { [name |-> file_name(scn.program, time, sealed[2]),
                      content |-> sealed[1], complete |-> TRUE] }
    /\ UNCHANGED <<scn, chain, head, cursorExists, cursorFile, pc, outcome, locals,
                   trace, past>>

SealNext == seal_again

SealSpec == SealInit /\ [][SealNext]_vars

TimestampOf(c) ==
    IF "timestamp" \in DOMAIN c.attestation THEN c.attestation.timestamp
    ELSE c.attestation.unix_ts

\* C5: all the certificates sealed from one batch carry the same fingerprint,
\* whatever the creation time, the range and the order of the items' fields.
C5_SealDeterministic ==
    \A f1, f2 \in snapshots : FingerprintOf(f1.content) = FingerprintOf(f2.content)

\* a non-empty batch was sealed twice: at two times, for two ranges, in two field orders
C5_Witness ==
    /\ pc = "seal"
    /\ vault # <<>>
    /\ \E f1, f2 \in snapshots :
        /\ TimestampOf(f1.content) # TimestampOf(f2.content)
        /\ f1.content.attestation.range # f2.content.attestation.range
        /\ PayloadOf(f1.content) # PayloadOf(f2.content)

(***************************************************************************)
(* The seal comes once, and last.                                          *)
(***************************************************************************)
\* C11: a run writes at most one certificate, it writes it only after its scan
\* loop has ended with the pointer at or past the captured head and every
\* request of the run answered, and no cursor write of the run follows it
C11_OneSealPerRun ==
    /\ [](/\ Len(trace.sealed) <= 1
          /\ trace.sealed # <<>> =>
               /\ pointer >= current_head
               /\ pc \in {"publish", "exit"}
               /\ \A i \in 1..Len(Requests) : Requests[i].ok
               /\ Len(trace.writes) >= Len(Requests))
    /\ [][/\ snapshots' # snapshots =>
               /\ trace.sealed = <<>>
               /\ pc = "scan"
               /\ pointer >= current_head
               /\ Cardinality(snapshots') <= Cardinality(snapshots) + 1
          /\ (trace.sealed # <<>> /\ runs' = runs) =>
               /\ trace'.writes = trace.writes
               /\ trace'.requests = trace.requests
               /\ cursorFile' = cursorFile
               /\ trace'.sealed = trace.sealed]_vars

\* a run of two ranges, both cursor writes made, has sealed its batch
C11_Witness ==
    /\ Len(trace.sealed) = 1
    /\ Len(Requests) >= 2
    /\ Len(trace.writes) >= Len(Requests)
    /\ pointer >= current_head

(***************************************************************************)
(* Where a run starts from.                                                *)
(***************************************************************************)
\* this run found no cursor file and created it: a write made before any request
CreatedByRun ==
    (IF Requests = <<>> THEN Len(trace.writes) ELSE Requests[1].written) = 1

\* C12: initialization creates an absent cursor file holding the genesis block
\* and leaves a present one as it is; the run then reads that file unchanged and
\* its scan starts at the value read: genesis after a creation, else the stored one
C12_CursorBootstrap ==
    /\ [](trace.loaded =>
            /\ CreatedByRun => cursor = scn.GENESIS_BLOCK
            /\ Requests # <<>> => Requests[1].fromBlock = cursor)
    /\ [][(pc = "init" /\ pc' = "connect") =>
            /\ cursorExists'
            /\ cursorFile' = (IF cursorExists THEN cursorFile
                                            ELSE str(scn.GENESIS_BLOCK))]_vars
    /\ [][(pc = "connect" \/ pc = "load") => cursorFile' = cursorFile]_vars
    /\ [][(pc = "load" /\ trace'.loaded) =>
            /\ IsIntText(cursorFile)
            /\ cursor' = int(cursorFile)
            /\ pointer' = cursor']_vars

\* the first run created the file and scanned from genesis; the second found it
\* present, holding a later block, and scans from there
C12_Witness ==
    /\ runs = 2
    /\ prev.loaded /\ prev.cursor = scn.GENESIS_BLOCK /\ prev.requests # <<>>
    /\ Len(prev.writes) >= 2 /\ prev.writes[1] = scn.GENESIS_BLOCK
    /\ trace.loaded /\ ~CreatedByRun
    /\ cursor > scn.GENESIS_BLOCK
    /\ Requests # <<>>

(***************************************************************************)
(* What an interrupted run leaves behind.                                  *)
(***************************************************************************)
\* the logs a complete certificate file holds
LogsIn(f) == { PayloadOf(f.content)[k] : k \in 1..Len(PayloadOf(f.content)) }

\* C13: the logs a run fetched from ranges its persisted cursor had passed,
\* when it was killed or aborted before its certificate was written, are in no
\* certificate, of that run or of any run after it, and no later run requests
\* a range that holds one of them
C13_EagerCursorGap ==
    /\ \A f \in snapshots : f.complete =>
           \A l \in Lost : to_json_loads(l) \notin LogsIn(f)
    /\ \A l \in hist.lost : \A i \in 1..Len(Requests) :
           ~(Requests[i].fromBlock <= l.blockNumber /\ l.blockNumber <= Requests[i].toBlock)

\* a run lost logs it had fetched; the next run has scanned on from the cursor
\* and sealed a certificate of its own
C13_Witness ==
    /\ runs = 2
    /\ PrevInterrupted
    /\ hist.lost # {}
    /\ hist.lost \subseteq EventsOf(prev.requests)
    /\ Requests # <<>>
    /\ trace.sealed # <<>>
    /\ \E f \in snapshots : f.complete /\ LogsIn(f) # {}

(***************************************************************************)
(* The cursor is persisted before the next network call.                   *)
(***************************************************************************)
\* C14: between two consecutive get_logs requests of a run the cursor file is
\* written exactly once, with the toBlock of the first request plus one, and
\* that value, on disk when the second request is made, is its fromBlock
C14_PersistBeforeNextCall ==
    /\ [](\A k \in 2..Len(Requests) :
            /\ Requests[k].written = Requests[k - 1].written + 1
            /\ trace.writes[Requests[k].written] = Requests[k - 1].toBlock + 1
            /\ Requests[k].fromBlock = Requests[k - 1].toBlock + 1)
    /\ [][(Requests # <<>> /\ Len(trace'.requests) = Len(Requests) + 1) =>
            /\ cursorFile = str(Requests[Len(Requests)].toBlock + 1)
            /\ trace'.requests[Len(Requests) + 1].fromBlock = int(cursorFile)]_vars

\* three requests of one run, hence two cursor writes between them
C14_Witness ==
    /\ Len(Requests) >= 3
    /\ Requests[3].written = Requests[1].written + 2
    /\ Requests[3].fromBlock = trace.writes[Requests[3].written]

(***************************************************************************)
(* The head is read once.                                                  *)
(***************************************************************************)
\* the certificates this run has written, as they are on disk
SealedByRun == { f \in snapshots : f.complete /\ \E i \in 1..Len(trace.sealed) : f.name = trace.sealed[i] }

\* C15: the head is the chain's head at the moment the run reads it and stays
\* that value to the end of the run, whatever the chain does meanwhile; no
\* request goes above it and the certificate's range ends at it
C15_HeadSnapshot ==
    /\ [](trace.loaded =>
            /\ current_head <= head
            /\ \A i \in 1..Len(Requests) : Requests[i].toBlock <= current_head
            /\ \A f \in SealedByRun :
                   f.content.attestation.range = range_text(cursor, current_head))
    /\ [][(pc = "load" /\ trace'.loaded) => current_head' = head]_vars
    /\ [][(trace.loaded /\ runs' = runs) => current_head' = current_head]_vars

\* the chain has grown past the captured head while the run was scanning: its
\* last request stops at the captured head, and so does the certificate
C15_Witness ==
    /\ trace.loaded
    /\ head > current_head
    /\ Len(Requests) >= 2
    /\ Requests[Len(Requests)].toBlock = current_head
    /\ Requests[Len(Requests)].toBlock < Requests[Len(Requests)].fromBlock + scn.BLOCK_STEP
    /\ SealedByRun # {}

(***************************************************************************)
(* Nothing new on the chain.                                               *)
(***************************************************************************)
\* C16: a run that finds the head at or below its cursor makes no get_logs
\* request, leaves the cursor file with the value it read, keeps an empty batch
\* and writes no certificate file
C16_NoNewBlocks ==
    /\ []((trace.loaded /\ current_head <= cursor) =>
            /\ Requests = <<>>
            /\ vault = <<>>
            /\ pointer = cursor
            /\ IsIntText(cursorFile) /\ Persisted = cursor
            /\ trace.sealed = <<>>
            /\ trace.publish = <<>>
            /\ outcome \in {"running", "nodata", "killed"})
    /\ [][(trace.loaded /\ current_head <= cursor /\ runs' = runs) =>
            /\ cursorFile' = cursorFile
            /\ snapshots' = snapshots]_vars

\* a later run found the head exactly at the cursor the run before had left,
\* and has returned with nothing done
C16_Witness ==
    /\ runs = 2
    /\ prev.requests # <<>>
    /\ trace.loaded
    /\ current_head = cursor
    /\ cursor > scn.GENESIS_BLOCK
    /\ pc = "exit" /\ outcome = "nodata"

(***************************************************************************)
(* The order of the batch.                                                 *)
(***************************************************************************)
\* the logs the requests returned, one after the other, as the vault holds them
RECURSIVE BatchOf(_)
BatchOf(reqs) ==
    IF reqs = <<>> THEN <<>>
    ELSE LET last == reqs[Len(reqs)]
         IN  BatchOf(SubSeq(reqs, 1, Len(reqs) - 1))
                 \o [i \in 1..Len(last.logs) |-> to_json_loads(last.logs[i])]

\* the value an item of the vault holds under a key
Field(item, key) == item[CHOOSE i \in 1..Len(item) : item[i][1] = key][2]

\* C17: the batch is the sequences the get_logs requests returned, joined in
\* request order with nothing dropped, repeated or moved; its block heights
\* never go down; and the certificate carries the batch as it is
C17_BatchOrder ==
    trace.loaded =>
        /\ vault = BatchOf(Requests)
        /\ \A i \in 1..Len(Requests) :
               Requests[i].ok =>
                   Requests[i].logs = get_logs(chain, Requests[i].fromBlock,
                                               Requests[i].toBlock, checksum_targets)
        /\ \A i, j \in 1..Len(vault) :
               i < j => Field(vault[i], "blockNumber") <= Field(vault[j], "blockNumber")
        /\ \A i, j \in 1..Len(vault) : i # j => vault[i] # vault[j]
        /\ \A f \in SealedByRun : PayloadOf(f.content) = vault

\* a sealed batch of four logs, two from each of two requests
C17_Witness ==
    /\ SealedByRun # {}
    /\ Len(Requests) = 2
    /\ \A i \in 1..2 : Len(Requests[i].logs) = 2
    /\ Len(vault) = 4
    /\ Field(vault[1], "blockNumber") < Field(vault[Len(vault)], "blockNumber")

(***************************************************************************)
(* The range a certificate names and the range that was scanned.           *)
(***************************************************************************)
\* C18: when a run has written a certificate, every block from its starting
\* cursor to the captured head, the head included, lies in a range the run
\* requested, and every watched log of those blocks is in the payload
C18_CertificateRangeScanned ==
    \A f \in SealedByRun :
        /\ f.content.attestation.range = range_text(cursor, current_head)
        /\ \A b \in cursor..current_head : Covering(b) # {}
        /\ LET logs == get_logs(chain, cursor, current_head, checksum_targets)
           IN  \A k \in 1..Len(logs) : to_json_loads(logs[k]) \in LogsIn(f)

(***************************************************************************)
(* What the persisted cursor stands for.                                   *)
(***************************************************************************)
\* block b lies in one of the ranges
Holds(ranges, b) == \E r \in ranges : r[1] <= b /\ b <= r[2]

\* every block of lo..hi lies in one of the ranges.  The lowest block left out, if
\* there is one, is lo or the block after the end of a range, so only those are tried
Covered(ranges, lo, hi) ==
    \A g \in {lo} \cup { r[2] + 1 : r \in ranges } :
        (lo <= g /\ g <= hi) => Holds(ranges, g)

ScanScenarios ==
    { [program |-> p, GENESIS_BLOCK |-> SmallGenesis, BLOCK_STEP |-> s,
       heads |-> (SmallGenesis - 1)..(SmallGenesis + MaxOffset),
       blocks |-> SmallGenesis..(SmallGenesis + MaxOffset)] :
      p \in Programs, s \in 0..(SmallStep + 1) }

\* the state after the cursor and the head were read
ScanInit ==
    /\ scn \in ScanScenarios
    /\ chain \in {ChainOf({}), ChainOf(scn.blocks)}
    /\ head \in scn.heads
    /\ clock = 0
    /\ cursorExists = TRUE
    /\ cursor \in scn.blocks
    /\ cursorFile = str(cursor)
    /\ snapshots = {}
    /\ pc = "scan"
    /\ outcome = "running"
    /\ url_index = 1
    /\ w3 = 1
    /\ current_head = head
    /\ pointer = cursor
    /\ limit = 0
    /\ vault = <<>>
    /\ f_path = NoFile
    /\ trace = [EmptyTrace EXCEPT !.loaded = TRUE]
    /\ runs = 1
    /\ prev = NoRun
    /\ interruptedAt = {}
    /\ hist = NoHistory

ScanNext ==
    \/ scan_range
    \/ scan_range_raises
    \/ save_cursor
    \/ no_new_data
    \/ seal_and_save
    \/ publish

\* one pass of the while loop: the request, then the pointer and the cursor file
LoopBody ==
    \/ scan_range
    \/ scan_range_raises
    \/ save_cursor

ScanSpec == ScanInit /\ [][ScanNext]_vars /\ WF_vars(LoopBody)

\* the run is in its while loop: a range is still to be requested or saved
Scanning ==
    /\ trace.loaded
    /\ \/ pc = "save"
       \/ pc = "scan" /\ loop_condition(pointer, current_head)

\* C20: every pass of the scan loop moves the pointer strictly up; a run that
\* starts scanning at C0 below H makes at most H - C0 passes; and it leaves
\* the loop, for the seal, the no-data return or the error exit
C20_ScanTerminates ==
    /\ [][pointer' # pointer => pointer' > pointer]_vars
    /\ []((trace.loaded /\ cursor < current_head) =>
              /\ Len(Requests) <= current_head - cursor
              /\ pointer <= current_head + 1)
    /\ [](~(trace.loaded /\ cursor < current_head) => Requests = <<>>)
    /\ Scanning ~> ~Scanning
    /\ <>~Scanning

\* with a step of 0 every pass covers one block: the run has ended after
\* exactly H - C0 passes, each answered
C20_Witness ==
    /\ scn.BLOCK_STEP = 0
    /\ pc = "exit"
    /\ current_head - cursor >= 2
    /\ Len(Requests) = current_head - cursor
    /\ \A i \in 1..Len(Requests) : Requests[i].ok
    /\ pointer = current_head

=============================================================================
